---- MODULE Spec2Model ----
(***************************************************************************)
(* surf: the Client handle (src/src/client.rs), its middleware stack held  *)
(* in an Arc<Vec<Arc<dyn Middleware>>>, and the traversal of that stack by *)
(* the future that Client::send returns.                                   *)
(*                                                                         *)
(* crate::middleware (the Middleware trait and Next) is not part of the    *)
(* sources at hand; Next::run and the behaviour of the middleware are      *)
(* modelled from the specification (sections 4.1 and 4.2).                 *)
(***************************************************************************)
EXTENDS Integers, Sequences, FiniteSets, TLC

\* ---------------------------------------------------------------- bounds
MaxClients == 2      \* client handles ever created (new, clone, verb methods)
MaxMw      == 2      \* middleware instances ever registered with `with`
MaxSends   == 2      \* futures ever returned by `send`, middleware advancing at most once
MaxDeep    == 1      \* futures ever returned by `send`, middleware of every kind
MaxRetry   == 2      \* re-advances a retry middleware makes after failures

ClientIds == 1..MaxClients

\* The optional default middleware (feature "middleware-logger"). A Logger
\* carries no state, so every Logger instance is the same value.
Logger == 0

\* How a registered middleware uses its continuation (spec 4.1).
Kinds == {"once", "shortOk", "shortErr", "twice", "retry"}

VARIABLES
    featureLogger,  \* build-time: feature "middleware-logger"
    state,          \* client handle -> "none" | "live" | "dead"
    owner,          \* client handle -> "user" | "builder" (held by a RequestBuilder)
    http_client,    \* client handle -> transport (Arc<dyn HttpClient>)
    middleware,     \* client handle -> contents of its Arc<Vec<Arc<dyn Middleware>>>
    strong,         \* client handle -> strong count of that Arc
    parent,         \* client handle -> the handle it was cloned from (0: none)
    origin,         \* client handle -> the stack it was given when it was built
    instances,      \* the middleware passed to `with`: its kind, and the client
    sends,          \* the futures returned by send, in the order of the calls
    last,           \* the last call of `with` or of a verb method, and its outcome
    headers,        \* an http::HeaderMap: its entries, in the order of first insertion
    hlast           \* the last call on Headers or on its header_map, and its outcome

clientVars == <<featureLogger, state, owner, http_client, middleware, strong,
                parent, origin, instances, sends, last>>

vars == <<featureLogger, state, owner, http_client, middleware, strong, parent,
          origin, instances, sends, last, headers, hlast>>

\* ------------------------------------------------------------ client.rs

\* Client::with_http_client: the stack of a newly built client.
DefaultStack == IF featureLogger THEN <<Logger>> ELSE <<>>

NoCall == [op |-> "none", client |-> 0, strongBefore |-> 0, before |-> <<>>,
           sentBefore |-> FALSE, clonedBefore |-> FALSE, outcome |-> "none",
           method |-> "none", wellFormed |-> TRUE]

\* No call on Headers yet.
NoHeaderCall == [op |-> "none", key |-> <<>>, value |-> <<>>, before |-> <<>>,
                 outcome |-> "none", ret |-> <<>>]

Init ==
    /\ headers = <<>>
    /\ hlast = NoHeaderCall
    /\ featureLogger \in BOOLEAN
    /\ state = [c \in ClientIds |-> IF c = 1 THEN "live" ELSE "none"]
    /\ owner = [c \in ClientIds |-> "user"]
    /\ http_client = [c \in ClientIds |-> IF c = 1 THEN 1 ELSE 0]
    /\ middleware = [c \in ClientIds |-> IF c = 1 THEN DefaultStack ELSE <<>>]
    /\ strong = [c \in ClientIds |-> IF c = 1 THEN 1 ELSE 0]
    /\ parent = [c \in ClientIds |-> 0]
    /\ origin = [c \in ClientIds |-> IF c = 1 THEN DefaultStack ELSE <<>>]
    /\ instances = <<>>
    /\ sends = <<>>
    /\ last = NoCall

\* ------------------------------------------------------ values in flight

\* A request is abstracted to the trail of middleware that changed it on the
\* way down; a response to who produced it and the trail of middleware that
\* changed it on the way up.
NoVal == [ok |-> FALSE, by |-> "none", src |-> 0, trail |-> <<>>]

NoFuture == [client |-> 0, held |-> FALSE, sent |-> <<>>, handle |-> <<>>,
             pc |-> "none", at |-> 0, arg |-> <<>>, val |-> NoVal,
             frames |-> <<>>, log |-> <<>>, termCount |-> 0, tx |-> <<>>,
             txReq |-> <<>>, result |-> [ok |-> FALSE, value |-> NoVal],
             helper |-> "send", sendsMade |-> 0, decodes |-> 0,
             out |-> [ok |-> FALSE, value |-> NoVal]]

InFlight(f) == f.pc \in {"created", "call", "io", "ret"}

\* The body-consuming helpers, each an `async fn(&self, req)`.
Helpers == {"recv_bytes", "recv_string", "recv_json", "recv_form"}

\* A helper's future is alive and holds the `&self` it was called with.
Borrowed(c) ==
    \E i \in 1..Len(sends) :
        /\ sends[i].client = c
        /\ sends[i].helper \in Helpers
        /\ sends[i].pc \notin {"done", "dropped"}

\* ------------------------------------------------------------ Client API

FreeClients == {d \in ClientIds : state[d] = "none"}

\* Client::new -> Client::with_http_client(Arc::new(client)): a new transport
\* and a new stack holding at most the default logger.
New ==
    \E d \in FreeClients :
        /\ d = CHOOSE x \in FreeClients : \A y \in FreeClients : x <= y
        /\ state' = [state EXCEPT ![d] = "live"]
        /\ http_client' = [http_client EXCEPT ![d] = d]
        /\ middleware' = [middleware EXCEPT ![d] = DefaultStack]
        /\ strong' = [strong EXCEPT ![d] = 1]
        /\ origin' = [origin EXCEPT ![d] = DefaultStack]
        /\ UNCHANGED <<headers, hlast, featureLogger, owner, parent, instances, sends, last>>

\* A clone built like a new client: the stack is not copied.
CloneStackFresh(s) == DefaultStack

\* self.middleware.iter().cloned().collect(): a new Vec holding the same
\* middleware instances in the same order.
CloneStack(s) == [i \in 1..Len(s) |-> s[i]]

\* impl Clone for Client: the transport is shared, the stack container is new.
MakeClone(c, d, who) ==
    /\ state' = [state EXCEPT ![d] = "live"]
    /\ owner' = [owner EXCEPT ![d] = who]
    /\ http_client' = [http_client EXCEPT ![d] = http_client[c]]
    /\ middleware' = [middleware EXCEPT ![d] = CloneStack(middleware[c])]
    /\ strong' = [strong EXCEPT ![d] = 1]
    /\ parent' = [parent EXCEPT ![d] = c]
    /\ origin' = [origin EXCEPT ![d] = middleware[c]]

Clone(c) ==
    /\ state[c] = "live" /\ owner[c] = "user"
    /\ \E d \in FreeClients :
        /\ d = CHOOSE x \in FreeClients : \A y \in FreeClients : x <= y
        /\ MakeClone(c, d, "user")
    /\ UNCHANGED <<headers, hlast, featureLogger, instances, sends, last>>

\* A mutable borrow handed out whoever else holds the Arc.
GetMutAlways(c) == TRUE

\* A check that also refuses a client that has been duplicated.
GetMutUncloned(c) == strong[c] = 1 /\ \A d \in ClientIds : parent[d] # c

\* Arc::get_mut(&mut self.middleware): Some only for the one owner of the Arc.
GetMut(c) == strong[c] = 1

\* The new middleware put in front of the stack instead of behind it.
PushFront(s, m) == <<m>> \o s

\* m.push(Arc::new(middleware))
Push(s, m) == Append(s, m)

Sent(c) == \E i \in 1..Len(sends) : sends[i].client = c /\ sends[i].pc # "lazy"
Cloned(c) == \E d \in ClientIds : parent[d] = c

\* Client::with(mut self, middleware): pushes onto the stack, or panics on the
\* expect; the panic unwinds through `self`, which drops its Arc.
With(c, k) ==
    /\ state[c] = "live" /\ owner[c] = "user"
    /\ ~Borrowed(c)
    /\ LET call == [op |-> "with", client |-> c, strongBefore |-> strong[c],
                    before |-> middleware[c], sentBefore |-> Sent(c),
                    clonedBefore |-> Cloned(c), outcome |-> "ok",
                    method |-> "none", wellFormed |-> TRUE]
       IN IF GetMut(c)
          THEN /\ Len(instances) < MaxMw
               /\ instances' = Append(instances, [kind |-> k, client |-> c])
               /\ middleware' = [middleware EXCEPT ![c] = Push(@, Len(instances) + 1)]
               /\ last' = call
               /\ UNCHANGED <<state, strong>>
          ELSE /\ state' = [state EXCEPT ![c] = "dead"]
               /\ strong' = [strong EXCEPT ![c] = @ - 1]
               /\ last' = [call EXCEPT !.outcome = "panic"]
               /\ UNCHANGED <<instances, middleware>>
    /\ UNCHANGED <<headers, hlast, featureLogger, owner, http_client, parent, origin, sends>>

\* Client::get .. Client::patch: uri.parse().unwrap(), then
\* RequestBuilder::new(method, uri).with_client(self.clone()).
ParseUnwrapLenient(wellFormed) == "ok"

\* `uri.parse().unwrap()`: a target that does not parse panics.
ParseUnwrap(wellFormed) == IF wellFormed THEN "ok" ELSE "panic"

\* The nine verb methods, one body each, differing in the method only.
Methods == {"GET", "HEAD", "POST", "PUT", "DELETE", "CONNECT", "OPTIONS",
            "TRACE", "PATCH"}

VerbM(c, method, wellFormed) ==
    /\ state[c] = "live" /\ owner[c] = "user"
    /\ LET call == [op |-> "verb", client |-> c, strongBefore |-> strong[c],
                    before |-> middleware[c], sentBefore |-> Sent(c),
                    clonedBefore |-> Cloned(c), outcome |-> "ok",
                    method |-> method, wellFormed |-> wellFormed]
       IN IF ParseUnwrap(wellFormed) = "ok"
          THEN /\ \E d \in FreeClients :
                    /\ d = CHOOSE x \in FreeClients : \A y \in FreeClients : x <= y
                    /\ MakeClone(c, d, "builder")
               /\ last' = call
          ELSE /\ last' = [call EXCEPT !.outcome = "panic"]
               /\ UNCHANGED <<state, owner, http_client, middleware, strong, parent,
                              origin>>
    /\ UNCHANGED <<headers, hlast, featureLogger, instances, sends>>

\* Client::get(uri).
Verb(c, wellFormed) == VerbM(c, "GET", wellFormed)

\* Client::send, up to Box::pin: the future takes a clone of the transport Arc
\* and of the stack Arc; nothing of the async block has run yet.
Send(c, maxSends) ==
    /\ state[c] = "live"
    /\ Len(sends) < maxSends
    /\ sends' = Append(sends, [NoFuture EXCEPT !.client = c, !.held = TRUE,
                                               !.sent = middleware[c],
                                               !.pc = "created"])
    /\ strong' = [strong EXCEPT ![c] = @ + 1]
    /\ UNCHANGED <<headers, hlast, featureLogger, state, owner, http_client, middleware, parent,
                   origin, instances, last>>

\* ------------------------------------------- middleware (spec 4.1, 4.2)

KindOf(m) == IF m = Logger THEN "once" ELSE instances[m].kind

\* What a middleware does when it is invoked: advance its continuation, or
\* produce a result itself (short-circuit).
OnEnter(k) == IF k \in {"shortOk", "shortErr"} THEN "return" ELSE "advance"

\* The response or failure a short-circuiting middleware produces.
Produced(k, m) == [ok |-> k = "shortOk", by |-> "middleware", src |-> m,
                   trail |-> <<>>]

\* What a middleware does when its continuation has returned v to it, having
\* advanced adv times so far: advance again, or return upward.
OnResult(k, adv, v) ==
    CASE k = "twice" -> IF adv < 2 THEN "advance" ELSE "return"
      [] k = "retry" -> IF ~v.ok /\ adv < 1 + MaxRetry THEN "advance" ELSE "return"
      [] OTHER       -> "return"

\* The request a middleware hands to its continuation, and the result it
\* returns upward: a response is changed, a failure passes as it is.
Pre(m, req) == Append(req, m)
Post(m, v) == IF v.ok THEN [v EXCEPT !.trail = Append(@, m)] ELSE v

\* ------------------------------------------------ the future of send

\* The continuation built over the stack of the client that send hands down
\* the chain, instead of over the sending client's stack.
SendNextDefault(f) == [chain |-> DefaultStack, at |-> 1]

\* Next::new(&middleware, ..): the continuation over the whole stack that the
\* future's Arc points to.
SendNext(f) == [chain |-> middleware[f.client], at |-> 1]

\* The sending client's own stack handed down the chain.
SendHandleSelf(f) == [http_client |-> http_client[f.client], middleware |-> middleware[f.client]]

\* Client::with_http_client(http_client): the client handed down the chain.
SendHandle(f) == [http_client |-> http_client[f.client], middleware |-> DefaultStack]

\* The result wrapped as a response whether or not the chain failed.
SendResultSwallow(v) == [ok |-> TRUE, value |-> v]

\* `next.run(..).await?` then `Ok(Response::new(res.into()))`.
SendResult(v) == [ok |-> v.ok, value |-> v]

\* First poll: the async block starts and builds the continuation.
Start(i) ==
    /\ sends[i].pc = "created"
    /\ sends' = [sends EXCEPT ![i] = [@ EXCEPT !.pc = "call",
                                               !.at = SendNext(sends[i]).at,
                                               !.arg = <<>>,
                                               !.handle = <<SendHandle(sends[i])>>]]
    /\ UNCHANGED <<headers, hlast, featureLogger, state, owner, http_client, middleware, strong,
                   parent, origin,
                   instances, last>>

\* Next::run with middleware remaining: invoke the first of them with a
\* continuation over the rest.
Run(i) ==
    LET f == sends[i]
        chain == SendNext(f).chain
    IN /\ f.pc = "call"
       /\ f.at <= Len(chain)
       /\ LET m == chain[f.at]
              k == KindOf(m)
              entered == [f EXCEPT !.log = Append(@, <<"pre", m>>)]
          IN IF OnEnter(k) = "advance"
             THEN sends' = [sends EXCEPT ![i] =
                     [entered EXCEPT
                         !.frames = Append(@, [pos |-> f.at, adv |-> 1,
                                               req |-> f.arg, seen |-> <<>>]),
                         !.at = f.at + 1,
                         !.arg = Pre(m, f.arg)]]
             ELSE sends' = [sends EXCEPT ![i] =
                     [entered EXCEPT !.pc = "ret", !.val = Produced(k, m)]]
       /\ UNCHANGED <<headers, hlast, featureLogger, state, owner, http_client, middleware, strong,
                      parent, origin, instances, last>>

\* A terminal handler whose call of the transport is never answered.
TerminalLost(i) ==
    LET f == sends[i]
    IN /\ f.pc = "call"
       /\ f.at > Len(SendNext(f).chain)
       /\ sends' = [sends EXCEPT ![i] = [f EXCEPT !.pc = "lost"]]
       /\ UNCHANGED <<headers, hlast, featureLogger, state, owner, http_client,
                      middleware, strong, parent, origin, instances, last>>

\* Next::run with no middleware remaining: the terminal handler of send,
\* which passes the request to the transport of the client it was handed:
\* client.http_client.send(req).await.
Terminal(i) ==
    LET f == sends[i]
        chain == SendNext(f).chain
    IN /\ f.pc = "call"
       /\ f.at > Len(chain)
       /\ sends' = [sends EXCEPT ![i] =
               [f EXCEPT !.pc = "io",
                         !.termCount = @ + 1,
                         !.txReq = Append(@, [to |-> f.handle[1].http_client,
                                              req |-> f.arg]),
                         !.log = Append(@, <<"term", f.termCount + 1>>)]]
       /\ UNCHANGED <<headers, hlast, featureLogger, state, owner, http_client, middleware, strong,
                      parent, origin, instances, last>>

\* The transport answers the pending call with a response or a failure.
Reply(i, ok) ==
    LET f == sends[i]
    IN /\ f.pc = "io"
       /\ sends' = [sends EXCEPT ![i] =
               [f EXCEPT !.pc = "ret",
                         !.tx = Append(@, ok),
                         !.val = [ok |-> ok, by |-> "transport",
                                  src |-> Len(f.tx) + 1, trail |-> <<>>]]]
       /\ UNCHANGED <<headers, hlast, featureLogger, state, owner, http_client, middleware, strong,
                      parent, origin,
                   instances, last>>

\* A result comes back to the innermost suspended middleware, which advances
\* again or returns upward.
Resume(i) ==
    LET f == sends[i]
        chain == SendNext(f).chain
    IN /\ f.pc = "ret"
       /\ f.frames # <<>>
       /\ LET n == Len(f.frames)
              fr == f.frames[n]
              m == chain[fr.pos]
              saw == [fr EXCEPT !.seen = Append(@, f.val)]
          IN IF OnResult(KindOf(m), fr.adv, f.val) = "advance"
             THEN sends' = [sends EXCEPT ![i] =
                     [f EXCEPT !.pc = "call",
                               !.frames[n] = [saw EXCEPT !.adv = @ + 1],
                               !.at = fr.pos + 1,
                               !.arg = Pre(m, fr.req)]]
             ELSE sends' = [sends EXCEPT ![i] =
                     [f EXCEPT !.frames = SubSeq(@, 1, n - 1),
                               !.val = Post(m, f.val),
                               !.log = Append(@, <<"post", m>>)]]
       /\ UNCHANGED <<headers, hlast, featureLogger, state, owner, http_client, middleware, strong,
                      parent, origin,
                   instances, last>>

\* A helper that decodes the body whatever the send returned.
RecvAfterSendAlways(r) == "decode"

\* `self.send(req.into()).await?` in a helper: a failure of the send is
\* returned at once, a response goes on to the decoding of its body.
RecvAfterSend(r) == IF r.ok THEN "decode" ELSE "done"

\* The outermost continuation has returned: the async block ends, dropping
\* what it captured, and the future is ready. A helper awaiting it goes on.
Complete(i) ==
    LET f == sends[i]
        r == SendResult(f.val)
    IN /\ f.pc = "ret"
       /\ f.frames = <<>>
       /\ sends' = [sends EXCEPT ![i] =
               [f EXCEPT !.pc = IF f.helper = "send" THEN "done"
                                ELSE RecvAfterSend(r),
                         !.held = FALSE,
                         !.result = r,
                         !.out = IF f.helper \in Helpers /\ RecvAfterSend(r) = "done"
                                 THEN r ELSE @]]
       /\ strong' = [strong EXCEPT ![f.client] = @ - 1]
       /\ UNCHANGED <<headers, hlast, featureLogger, state, owner, http_client, middleware, parent,
                      origin, instances, last>>

\* A drop that keeps the future's hold on the middleware stack.
DropLeak(i) ==
    LET f == sends[i]
    IN /\ f.pc \in {"lazy", "created", "io", "decode"}
       /\ sends' = [sends EXCEPT ![i] =
               [f EXCEPT !.pc = "dropped", !.held = FALSE, !.frames = <<>>]]
       /\ UNCHANGED <<headers, hlast, featureLogger, state, owner, http_client, middleware, strong,
                      parent, origin, instances, last>>

\* The future is dropped before it is ready, while it is not being polled
\* (never polled, or suspended on the transport or on the body): what it
\* holds is released.
Drop(i) ==
    LET f == sends[i]
    IN /\ f.pc \in {"lazy", "created", "io", "decode"}
       /\ sends' = [sends EXCEPT ![i] =
               [f EXCEPT !.pc = "dropped", !.held = FALSE, !.frames = <<>>]]
       /\ strong' = [strong EXCEPT ![f.client] = IF f.held THEN @ - 1 ELSE @]
       /\ UNCHANGED <<headers, hlast, featureLogger, state, owner, http_client, middleware, parent,
                      origin, instances, last>>

\* recv_bytes .. recv_form, called: an async fn does nothing until polled.
Recv(c, h, maxSends) ==
    /\ state[c] = "live"
    /\ Len(sends) < maxSends
    /\ sends' = Append(sends, [NoFuture EXCEPT !.client = c, !.helper = h,
                                               !.pc = "lazy"])
    /\ UNCHANGED <<headers, hlast, featureLogger, state, owner, http_client, middleware, strong,
                   parent, origin, instances, last>>

\* First poll of a helper: `self.send(req.into())`, which it then awaits.
RecvPoll(i) ==
    LET f == sends[i]
    IN /\ f.pc = "lazy"
       /\ sends' = [sends EXCEPT ![i] =
               [f EXCEPT !.pc = "created", !.held = TRUE,
                         !.sent = middleware[f.client],
                         !.sendsMade = @ + 1]]
       /\ strong' = [strong EXCEPT ![f.client] = @ + 1]
       /\ UNCHANGED <<headers, hlast, featureLogger, state, owner, http_client, middleware, parent,
                      origin, instances, last>>

\* `Ok(res.body_bytes().await?)` and its like: the body is read and decoded,
\* and a failure to do so is returned as the helper's error.
Decode(i, ok) ==
    LET f == sends[i]
    IN /\ f.pc = "decode"
       /\ sends' = [sends EXCEPT ![i] =
               [f EXCEPT !.pc = "done",
                         !.decodes = @ + 1,
                         !.out = [ok |-> ok,
                                  value |-> [ok |-> ok, by |-> "decode",
                                             src |-> f.result.value.src,
                                             trail |-> f.result.value.trail]]]]
       /\ UNCHANGED <<headers, hlast, featureLogger, state, owner, http_client, middleware, strong,
                      parent, origin, instances, last>>

Step(kinds, maxSends) ==
    \/ New
    \/ \E c \in ClientIds : Clone(c)
    \/ \E c \in ClientIds, k \in kinds : With(c, k)
    \/ \E c \in ClientIds, wf \in BOOLEAN : Verb(c, wf)
    \/ \E c \in ClientIds : Send(c, maxSends)
    \/ \E i \in 1..Len(sends) : Start(i)
    \/ \E i \in 1..Len(sends) : Run(i)
    \/ \E i \in 1..Len(sends) : Terminal(i)
    \/ \E i \in 1..Len(sends), ok \in BOOLEAN : Reply(i, ok)
    \/ \E i \in 1..Len(sends) : Resume(i)
    \/ \E i \in 1..Len(sends) : Complete(i)
    \/ \E i \in 1..Len(sends) : Drop(i)

\* Middleware of every kind.
Next == Step(Kinds, MaxDeep)

Spec == Init /\ [][Next]_vars

\* Sends issued and driven concurrently, over middleware that advance at most
\* once.
ConcKinds == {"once", "shortOk", "shortErr"}

NextConc == Step(ConcKinds, MaxSends)

SpecConc == Init /\ [][NextConc]_vars

\* A send that is not dropped keeps being polled, and the transport answers
\* every request it is given.
Driven(i) ==
    /\ WF_vars(i <= Len(sends) /\ Start(i))
    /\ WF_vars(i <= Len(sends) /\ Run(i))
    /\ WF_vars(i <= Len(sends) /\ Terminal(i))
    /\ WF_vars(i <= Len(sends) /\ \E ok \in BOOLEAN : Reply(i, ok))
    /\ WF_vars(i <= Len(sends) /\ Resume(i))
    /\ WF_vars(i <= Len(sends) /\ Complete(i))

SpecLive == Init /\ [][Next]_vars /\ \A i \in 1..MaxDeep : Driven(i)

\* The body-consuming helpers beside send.
NextRecv ==
    \/ Step(ConcKinds, MaxDeep)
    \/ \E c \in ClientIds, h \in Helpers : Recv(c, h, MaxDeep)
    \/ \E i \in 1..Len(sends) : RecvPoll(i)
    \/ \E i \in 1..Len(sends), ok \in BOOLEAN : Decode(i, ok)

SpecRecv == Init /\ [][NextRecv]_vars

\* ----------------------------------------------------------- headers.rs

\* Header names are sequences of characters, header values sequences of
\* bytes. The names and values the calls are made with:
Keys == {<<"a">>, <<"A">>, <<"b">>, <<"B">>, <<"a", " ">>}
Values == {<<118>>, <<119>>, <<195, 169>>, <<97, 10, 98>>}

\* http: a header name is a non-empty token; it is stored in lower case.
TokenChars == {"a", "b", "A", "B", "-"}
Lower(ch) == CASE ch = "A" -> "a" [] ch = "B" -> "b" [] OTHER -> ch
ParseName(key) ==
    IF key # <<>> /\ \A j \in 1..Len(key) : key[j] \in TokenChars
    THEN [ok |-> TRUE, name |-> [j \in 1..Len(key) |-> Lower(key[j])]]
    ELSE [ok |-> FALSE, name |-> <<>>]

\* http: the bytes a HeaderValue may hold, and those to_str accepts.
IsValid(b) == (b >= 32 /\ b # 127) \/ b = 9
IsVisibleAscii(b) == (b >= 32 /\ b < 127) \/ b = 9
Opaque(v) == \A j \in 1..Len(v) : IsValid(v[j])
Visible(v) == \A j \in 1..Len(v) : IsVisibleAscii(v[j])

\* `value.parse()`: HeaderValue::from_str. Visible ASCII is accepted and a
\* control byte refused; whether a byte above 127 is accepted depends on the
\* release of the http crate, so both outcomes are allowed.
FromStrAccepts(v) ==
    IF Visible(v) THEN {TRUE} ELSE IF Opaque(v) THEN BOOLEAN ELSE {FALSE}

\* `h.to_str()`
ToStr(v) == [ok |-> Visible(v), str |-> IF Visible(v) THEN v ELSE <<>>]

\* Position of the entry of a name in the map, 0 when there is none.
EntryOf(map, name) ==
    IF \E j \in 1..Len(map) : map[j].name = name
    THEN CHOOSE j \in 1..Len(map) : map[j].name = name
    ELSE 0

\* HeaderMap::insert: replaces the value of the entry and yields the old
\* one, or adds an entry at the end.
HeaderMapInsert(map, name, v) ==
    LET j == EntryOf(map, name)
    IN IF j = 0
       THEN [map |-> Append(map, [name |-> name, value |-> v]), old |-> <<>>]
       ELSE [map |-> [map EXCEPT ![j].value = v], old |-> <<map[j].value>>]

\* Headers::get: `self.headers.get(key).map(|h| h.to_str().unwrap())`. A key
\* that is no header name finds nothing.
HeadersGet(map, key) ==
    LET n == ParseName(key)
        j == IF n.ok THEN EntryOf(map, n.name) ELSE 0
    IN IF j = 0 THEN [outcome |-> "ok", ret |-> <<>>]
       ELSE IF ToStr(map[j].value).ok
            THEN [outcome |-> "ok", ret |-> <<ToStr(map[j].value).str>>]
            ELSE [outcome |-> "panic", ret |-> <<>>]

\* Headers::get
Get(key) ==
    /\ hlast' = [op |-> "get", key |-> key, value |-> <<>>, before |-> headers,
                 outcome |-> HeadersGet(headers, key).outcome,
                 ret |-> HeadersGet(headers, key).ret]
    /\ UNCHANGED <<headers, clientVars>>

\* Headers::insert: the value is parsed and unwrapped, then the key is turned
\* into a name (a &'static str that is no name panics inside the map), the
\* map is changed, and at last the old value is unwrapped into a String.
Insert(key, value) ==
    \E accept \in FromStrAccepts(value) :
        LET call == [op |-> "insert", key |-> key, value |-> value,
                     before |-> headers, outcome |-> "ok", ret |-> <<>>]
            n == ParseName(key)
            r == HeaderMapInsert(headers, n.name, value)
        IN /\ IF ~accept \/ ~n.ok
              THEN /\ hlast' = [call EXCEPT !.outcome = "panic"]
                   /\ headers' = headers
              ELSE /\ headers' = r.map
                   /\ hlast' = IF r.old = <<>> \/ ToStr(r.old[1]).ok
                               THEN [call EXCEPT !.ret = r.old]
                               ELSE [call EXCEPT !.outcome = "panic"]
           /\ UNCHANGED clientVars

\* Headers::header_map, and an insert on the map itself: any value the map
\* can hold (as the values of a received response are).
HeaderMapSet(key, value) ==
    /\ ParseName(key).ok /\ Opaque(value)
    /\ headers' = HeaderMapInsert(headers, ParseName(key).name, value).map
    /\ hlast' = [op |-> "header_map", key |-> key, value |-> value,
                 before |-> headers, outcome |-> "ok", ret |-> <<>>]
    /\ UNCHANGED clientVars

NextHeaders ==
    \/ \E key \in Keys : Get(key)
    \/ \E key \in Keys, value \in Values : Insert(key, value)
    \/ \E key \in Keys, value \in Values : HeaderMapSet(key, value)

SpecHeaders == Init /\ [][NextHeaders]_vars

\* All nine verb methods.
NextVerb ==
    \/ Step(ConcKinds, MaxDeep)
    \/ \E c \in ClientIds, m \in Methods, wf \in BOOLEAN : VerbM(c, m, wf)

SpecVerb == Init /\ [][NextVerb]_vars

\* ------------------------------------------------------------ properties

IsPrefix(a, b) == Len(a) <= Len(b) /\ SubSeq(b, 1, Len(a)) = a

\* The middleware of a stack in the order they were registered: the default
\* logger at construction, then the calls of `with` in their order.
Registered(s) == SortSeq(s, LAMBDA a, b : a < b)

Reverse(s) == [i \in 1..Len(s) |-> s[Len(s) + 1 - i]]
PreLog(s) == [i \in 1..Len(s) |-> <<"pre", s[i]>>]
PostLog(s) == [i \in 1..Len(s) |-> <<"post", s[Len(s) + 1 - i]>>]

\* One traversal of the chain s down to the n-th invocation of the terminal
\* handler and back.
OnionLog(s, n) == PreLog(s) \o <<<<"term", n>>>> \o PostLog(s)

AllOnce(s) == \A j \in 1..Len(s) : KindOf(s[j]) = "once"
ByWith(s) == SelectSeq(s, LAMBDA m : m # Logger)

\* C1: when every middleware of the stack advances exactly once, a send runs
\* the pre-continuation steps in registration order, then the terminal
\* handler, then the post-continuation steps in reverse registration order.
C1_OnionOrder ==
    \A i \in 1..Len(sends) :
        LET f == sends[i]
            onion == OnionLog(Registered(f.sent), 1)
        IN AllOnce(f.sent) =>
              /\ IsPrefix(f.log, onion)
              /\ f.pc = "done" => f.log = onion

C1_Witness ==
    \E i \in 1..Len(sends) :
        /\ sends[i].pc = "done"
        /\ AllOnce(sends[i].sent)
        /\ Len(ByWith(sends[i].sent)) >= 2
        /\ Len(sends[i].log) = 2 * Len(sends[i].sent) + 1

\* The middleware registered with `with` on client c, in registration order.
AddedBy(c) ==
    SelectSeq([m \in 1..Len(instances) |-> m], LAMBDA m : instances[m].client = c)

Elems(s) == {s[j] : j \in 1..Len(s)}

\* C2: after a clone, middleware registered only on the duplicate leave the
\* original's stack as it was, and the duplicate's stack is the stack it
\* copied followed by the middleware registered on it, in registration order.
C2_CloneIndependent ==
    \A d \in ClientIds :
        parent[d] # 0 =>
            /\ middleware[d] = origin[d] \o AddedBy(d)
            /\ Elems(AddedBy(parent[d])) \subseteq Elems(origin[d])
                  => middleware[parent[d]] = origin[d]

C2_Witness ==
    \E d \in ClientIds :
        /\ parent[d] # 0
        /\ ByWith(origin[d]) # <<>>
        /\ AddedBy(d) # <<>>
        /\ middleware[parent[d]] = origin[d]
        /\ middleware[d] # origin[d]

\* C3: `with` on a client whose stack Arc has another owner panics and leaves
\* the stack as it was, for the client and for every send in flight on it.
C3_SharedWithPanics ==
    (last.op = "with" /\ last.strongBefore > 1) =>
        /\ last.outcome = "panic"
        /\ middleware[last.client] = last.before
        /\ \A i \in 1..Len(sends) :
              (sends[i].client = last.client /\ InFlight(sends[i]))
                  => SendNext(sends[i]).chain = sends[i].sent

C3_Witness ==
    /\ last.op = "with"
    /\ last.strongBefore > 1
    /\ last.outcome = "panic"
    /\ \E i \in 1..Len(sends) :
          /\ sends[i].client = last.client
          /\ sends[i].pc = "io"
          /\ ByWith(sends[i].sent) # <<>>

\* C4: once a send has been issued on a client, every later `with` on that
\* client panics.
C4_WithAfterSendPanics ==
    (last.op = "with" /\ last.sentBefore) => last.outcome = "panic"

\* C5 as stated: after a client has been cloned, `with` on the original panics.
C5_WithAfterClonePanics ==
    (last.op = "with" /\ last.clonedBefore) => last.outcome = "panic"

\* C5, amended: after a client has been cloned, `with` on the original panics
\* exactly when the original's own stack Arc has another owner (a send future
\* that is still alive); otherwise it appends the middleware to the
\* original's stack and leaves the stacks of its clones alone.
C5_WithAfterCloneUnshared ==
    (last.op = "with" /\ last.clonedBefore) =>
        /\ last.outcome = "panic" <=> last.strongBefore > 1
        /\ last.outcome = "ok" =>
              /\ middleware[last.client] = Append(last.before, Len(instances))
              /\ \A d \in ClientIds :
                    parent[d] = last.client
                        => middleware[d] = origin[d] \o AddedBy(d)

C5_Witness ==
    /\ last.op = "with"
    /\ last.clonedBefore
    /\ last.outcome = "ok"
    /\ \E d \in ClientIds :
          parent[d] = last.client /\ middleware[d] # middleware[last.client]

Short(m) == KindOf(m) \in {"shortOk", "shortErr"}

\* The position of the first middleware of s that never advances (0: none).
FirstShort(s) ==
    IF \E j \in 1..Len(s) : Short(s[j])
    THEN CHOOSE j \in 1..Len(s) : Short(s[j]) /\ \A h \in 1..(j - 1) : ~Short(s[h])
    ELSE 0

\* v as changed by the post-continuation steps of ms[1], then ms[2], ...
RECURSIVE ApplyPosts(_, _)
ApplyPosts(v, ms) ==
    IF ms = <<>> THEN v ELSE ApplyPosts(Post(Head(ms), v), Tail(ms))

Mentions(log, m) == \E j \in 1..Len(log) : log[j][1] # "term" /\ log[j][2] = m

\* C6: when middleware Mi returns without advancing, the send never reaches
\* the terminal handler or the transport, invokes no middleware registered
\* after Mi, and returns what Mi produced as changed by the post-continuation
\* steps of M(i-1), .., M1.
C6_ShortCircuit ==
    \A i \in 1..Len(sends) :
        LET f == sends[i]
            reg == Registered(f.sent)
            p == FirstShort(reg)
        IN p # 0 =>
              /\ f.termCount = 0 /\ f.tx = <<>> /\ f.txReq = <<>>
              /\ \A j \in (p + 1)..Len(reg) : ~Mentions(f.log, reg[j])
              /\ f.pc = "done" =>
                    /\ f.result.value =
                          ApplyPosts(Produced(KindOf(reg[p]), reg[p]),
                                     Reverse(SubSeq(reg, 1, p - 1)))
                    /\ f.result.ok = (KindOf(reg[p]) = "shortOk")

C6_Witness ==
    \E i \in 1..Len(sends) :
        LET f == sends[i]
            p == FirstShort(f.sent)
        IN /\ f.pc = "done"
           /\ p > 1 /\ p < Len(f.sent)
           /\ f.result.ok
           /\ f.result.value.trail # <<>>
           /\ f.termCount = 0

\* Exactly one middleware of s is of kind k and every other advances once.
OneOfKind(s, k) ==
    /\ Cardinality({j \in 1..Len(s) : KindOf(s[j]) = k}) = 1
    /\ \A j \in 1..Len(s) : KindOf(s[j]) \in {k, "once"}

PosOfKind(s, k) == CHOOSE j \in 1..Len(s) : KindOf(s[j]) = k

\* What the n-th invocation of the terminal handler returns, the transport
\* having answered ok or not.
TransportResult(ok, n) == [ok |-> ok, by |-> "transport", src |-> n, trail |-> <<>>]

\* C7: when one middleware advances twice and every other advances once, the
\* terminal handler runs exactly twice, each of the two advances is a whole
\* nested traversal whose result comes back to that middleware on its own,
\* and only then does the middleware return.
C7_AdvanceTwice ==
    \A i \in 1..Len(sends) :
        LET f == sends[i]
            reg == Registered(f.sent)
        IN OneOfKind(reg, "twice") =>
              LET p == PosOfKind(reg, "twice")
                  above == SubSeq(reg, 1, p)
                  below == SubSeq(reg, p + 1, Len(reg))
                  whole == PreLog(above) \o OnionLog(below, 1)
                              \o OnionLog(below, 2) \o PostLog(above)
                  came(n) == ApplyPosts(TransportResult(f.tx[n], n), Reverse(below))
              IN /\ f.termCount <= 2
                 /\ IsPrefix(f.log, whole)
                 /\ \A j \in 1..Len(f.frames) :
                       f.frames[j].pos = p =>
                          /\ f.frames[j].seen =
                                [n \in 1..(f.frames[j].adv - 1) |-> came(n)]
                          /\ (j = Len(f.frames) /\ f.pc = "ret")
                                => f.val = came(f.frames[j].adv)
                 /\ f.pc = "done" =>
                       /\ f.termCount = 2 /\ Len(f.tx) = 2
                       /\ f.log = whole

C7_Witness ==
    \E i \in 1..Len(sends) :
        LET f == sends[i]
        IN /\ f.pc = "done"
           /\ OneOfKind(f.sent, "twice")
           /\ PosOfKind(f.sent, "twice") < Len(f.sent)
           /\ f.termCount = 2
           /\ f.tx = <<FALSE, TRUE>>

\* The transport stub that fails on its first two invocations and succeeds
\* from the third on: the answers given so far follow it.
FailsTwice(tx) == \A n \in 1..Len(tx) : tx[n] = (n >= 3)

\* C8: with a retry middleware over a transport that fails twice and then
\* succeeds, a send invokes the terminal handler exactly three times and
\* returns the response of the third invocation.
C8_RetryThrice ==
    \A i \in 1..Len(sends) :
        LET f == sends[i]
        IN (OneOfKind(f.sent, "retry") /\ FailsTwice(f.tx)) =>
              /\ f.termCount <= 3
              /\ f.pc = "done" =>
                    /\ f.termCount = 3
                    /\ f.tx = <<FALSE, FALSE, TRUE>>
                    /\ f.result.ok
                    /\ f.result.value.by = "transport"
                    /\ f.result.value.src = 3

C8_Witness ==
    \E i \in 1..Len(sends) :
        /\ sends[i].pc = "done"
        /\ OneOfKind(sends[i].sent, "retry")
        /\ sends[i].tx = <<FALSE, FALSE, TRUE>>
        /\ sends[i].result.ok

\* A failure is on its way up and every suspended middleware passes it on.
Failing(f) ==
    /\ f.pc = "ret"
    /\ ~f.val.ok
    /\ \A j \in 1..Len(f.frames) :
          OnResult(KindOf(SendNext(f).chain[f.frames[j].pos]),
                   f.frames[j].adv, f.val) = "return"

\* C9: from the moment a failure is on its way up through middleware that
\* pass it on, every step of that send keeps the failure value, invokes
\* neither the terminal handler nor the transport nor any middleware again,
\* and the send can only end with that failure as its result.
C9_FailurePropagates ==
    [][\A i \in 1..Len(sends) :
          LET f == sends[i]
              g == sends'[i]
          IN Failing(f) =>
                \/ g = f
                \/ /\ g.val = f.val
                   /\ g.termCount = f.termCount
                   /\ g.tx = f.tx /\ g.txReq = f.txReq
                   /\ IsPrefix(f.log, g.log)
                   /\ \A j \in (Len(f.log) + 1)..Len(g.log) : g.log[j][1] = "post"
                   /\ g.pc \in {"ret", "done"}
                   /\ g.pc = "done" => g.result = [ok |-> FALSE, value |-> f.val]]_vars

C9_Witness ==
    \E i \in 1..Len(sends) :
        /\ sends[i].pc = "done"
        /\ ~sends[i].result.ok
        /\ sends[i].result.value.by = "transport"
        /\ Len(ByWith(sends[i].sent)) >= 2
        /\ sends[i].termCount = 1

\* The events of one send over the chain s when no middleware advances more
\* than once: down to the first middleware that does not advance, or to the
\* terminal handler, and back.
OnceLog(s) ==
    LET p == FirstShort(s)
    IN IF p = 0 THEN OnionLog(s, 1)
       ELSE PreLog(SubSeq(s, 1, p)) \o PostLog(SubSeq(s, 1, p - 1))

\* C10: however sends, clones, `with` and verb methods interleave, the chain
\* each send in flight traverses is the client's stack as it was when send
\* was called, and each send keeps its own onion order.
C10_FrozenInFlight ==
    \A i \in 1..Len(sends) :
        LET f == sends[i]
        IN /\ InFlight(f) => SendNext(f).chain = f.sent
           /\ IsPrefix(f.log, OnceLog(f.sent))
           /\ f.pc = "done" => f.log = OnceLog(f.sent)

C10_Witness ==
    \E i, j \in 1..Len(sends) :
        /\ i # j
        /\ sends[i].client = sends[j].client
        /\ sends[i].pc = "io" /\ sends[j].pc = "ret"
        /\ sends[i].log # sends[j].log
        /\ ByWith(sends[i].sent) # <<>>
        /\ \E d \in ClientIds : parent[d] = sends[i].client /\ state[d] = "live"
        /\ last.op = "with" /\ last.outcome = "ok"

Count(log, e) == Cardinality({j \in 1..Len(log) : log[j] = e})

\* C11: when every middleware advances once, the transport receives the
\* caller's request as changed by M1, then M2, .., then Mn, and the caller
\* receives the transport's response as changed by Mn, .., then M1; the
\* response is still the transport's own, and every middleware of the stack
\* (the logger among them) sees one request and one response.
C11_OnionData ==
    \A i \in 1..Len(sends) :
        LET f == sends[i]
            reg == Registered(f.sent)
        IN AllOnce(f.sent) =>
              /\ Len(f.txReq) <= 1
              /\ \A n \in 1..Len(f.txReq) :
                    /\ f.txReq[n].req = reg
                    /\ f.txReq[n].to = http_client[f.client]
              /\ f.pc = "done" =>
                    /\ Len(f.txReq) = 1 /\ Len(f.tx) = 1
                    /\ f.result.ok = f.tx[1]
                    /\ f.result.value =
                          ApplyPosts(TransportResult(f.tx[1], 1), Reverse(reg))
                    /\ f.result.ok => f.result.value.trail = Reverse(reg)
                    /\ \A j \in 1..Len(reg) :
                          /\ Count(f.log, <<"pre", reg[j]>>) = 1
                          /\ Count(f.log, <<"post", reg[j]>>) = 1

C11_Witness ==
    \E i \in 1..Len(sends) :
        LET f == sends[i]
        IN /\ f.pc = "done"
           /\ AllOnce(f.sent)
           /\ Len(ByWith(f.sent)) >= 1
           /\ Head(f.sent) = Logger
           /\ f.result.ok
           /\ f.result.value.by = "transport"
           /\ f.result.value.trail = Reverse(f.sent)
           /\ f.txReq[1].req = f.sent

Holders(c, ss) == 1 + Cardinality({j \in 1..Len(ss) : ss[j].client = c /\ ss[j].held})

\* C13: when the future of a send is dropped while suspended, nothing of that
\* send happens afterwards (its record, with its middleware steps and its
\* transport invocations, never changes again), the drop itself adds no step
\* and no transport invocation and changes no client, it releases the
\* future's hold on the stack container, and what had happened before stays.
C13_DropReleases ==
    [][\A i \in 1..Len(sends) :
          LET f == sends[i]
              g == sends'[i]
          IN /\ f.pc = "dropped" => g = f
             /\ (f.pc # "dropped" /\ g.pc = "dropped") =>
                   /\ ~g.held /\ g.frames = <<>>
                   /\ g.log = f.log /\ g.txReq = f.txReq /\ g.tx = f.tx
                   /\ g.termCount = f.termCount
                   /\ strong'[f.client] = strong[f.client] - (IF f.held THEN 1 ELSE 0)
                   /\ state[f.client] = "live" => strong'[f.client] = Holders(f.client, sends')
                   /\ middleware' = middleware /\ instances' = instances
                   /\ state' = state /\ http_client' = http_client
      ]_vars

C13_Witness ==
    \E i \in 1..Len(sends) :
        LET f == sends[i]
        IN /\ f.pc = "dropped"
           /\ f.termCount = 1
           /\ ByWith(f.sent) # <<>>
           /\ f.log # <<>>
           /\ strong[f.client] = 1
           /\ last.op = "with" /\ last.client = f.client /\ last.outcome = "ok"
           /\ Len(middleware[f.client]) > Len(f.sent)

\* C14: a verb method, whichever of the nine, called with a target that does
\* not parse panics at the call: no builder (no duplicate of the client) is
\* made, no client changes, and no send, middleware step or transport
\* invocation comes of it.
C14_MalformedTargetPanics ==
    [][(last' # last /\ last'.op = "verb" /\ ~last'.wellFormed) =>
          /\ last'.method \in Methods
          /\ last'.outcome = "panic"
          /\ state' = state /\ owner' = owner /\ parent' = parent
          /\ http_client' = http_client
          /\ middleware' = middleware /\ strong' = strong
          /\ instances' = instances
          /\ sends' = sends
      ]_vars

C14_Witness ==
    /\ last.op = "verb" /\ last.method = "PATCH"
    /\ ~last.wellFormed /\ last.outcome = "panic"
    /\ state[last.client] = "live"
    /\ Len(middleware[last.client]) >= 2
    /\ \A d \in ClientIds : owner[d] # "builder"
    /\ sends = <<>>

\* The value stored under a name in a map: <<>> when there is none.
Stored(map, name) ==
    IF EntryOf(map, name) = 0 THEN <<>> ELSE <<map[EntryOf(map, name)].value>>

Names == {ParseName(key).name : key \in {k \in Keys : ParseName(k).ok}}

\* C15: insert(k, v) with a key that is a header name returns the value that
\* was stored under k, whatever the case of its letters, or nothing when
\* there was none; afterwards v is stored under k, the value of every other
\* name is what it was, and get with any case variant of k returns v.
C15_InsertReplaces ==
    (hlast.op = "insert" /\ ParseName(hlast.key).ok) =>
        LET name == ParseName(hlast.key).name
        IN /\ hlast.outcome = "ok"
           /\ hlast.ret = Stored(hlast.before, name)
           /\ Stored(headers, name) = <<hlast.value>>
           /\ \A other \in Names \ {name} :
                 Stored(headers, other) = Stored(hlast.before, other)
           /\ \A k2 \in Keys :
                 (ParseName(k2).ok /\ ParseName(k2).name = name) =>
                     HeadersGet(headers, k2) = [outcome |-> "ok", ret |-> <<hlast.value>>]

\* The same for a visible-ASCII value replacing nothing or a visible-ASCII value.
C15_InsertReplacesVisible ==
    (/\ hlast.op = "insert" /\ ParseName(hlast.key).ok
     /\ Visible(hlast.value)
     /\ \A j \in 1..Len(hlast.before) : Visible(hlast.before[j].value)) =>
        C15_InsertReplaces

\* k traversals of the chain s, one after the other.
RECURSIVE Traversals(_, _)
Traversals(s, k) == IF k = 0 THEN <<>> ELSE Traversals(s, k - 1) \o OnionLog(s, k)

\* The most advances a middleware of the kinds modelled makes in one send.
MaxAdvances == MaxRetry + 1

\* C16: when one middleware Mi advances k >= 1 times and the others once,
\* what happens during the send is the pre-continuation steps of M1..Mi, then
\* k whole traversals of M(i+1)..Mn one after the other (their pre steps in
\* registration order, the terminal handler, their post steps in reverse
\* order), then the post-continuation steps of Mi..M1.
C16_EachAdvanceTraverses ==
    \A i \in 1..Len(sends) :
        LET f == sends[i]
            reg == Registered(f.sent)
        IN (OneOfKind(reg, "twice") \/ OneOfKind(reg, "retry")) =>
              LET p == IF OneOfKind(reg, "twice") THEN PosOfKind(reg, "twice")
                       ELSE PosOfKind(reg, "retry")
                  above == SubSeq(reg, 1, p)
                  below == SubSeq(reg, p + 1, Len(reg))
                  whole(k) == PreLog(above) \o Traversals(below, k) \o PostLog(above)
              IN /\ \E k \in 1..MaxAdvances : IsPrefix(f.log, whole(k))
                 /\ f.termCount <= MaxAdvances
                 /\ \A j \in 1..Len(f.frames) :
                       f.frames[j].pos = p =>
                          /\ f.frames[j].adv \in {f.termCount, f.termCount + 1}
                          /\ f.pc = "ret" /\ j = Len(f.frames) =>
                                /\ f.frames[j].adv = f.termCount
                                /\ f.log = PreLog(above) \o Traversals(below, f.termCount)
                 /\ f.pc = "done" =>
                       /\ f.termCount >= 1
                       /\ f.log = whole(f.termCount)

C16_Witness ==
    \E i \in 1..Len(sends) :
        LET f == sends[i]
        IN /\ f.pc = "done"
           /\ OneOfKind(f.sent, "retry")
           /\ PosOfKind(f.sent, "retry") < Len(f.sent)
           /\ Head(f.sent) = Logger
           /\ f.termCount = 3
           /\ Count(f.log, <<"pre", f.sent[Len(f.sent)]>>) = 3

\* The chain a request sent through the handle h traverses: send on h builds
\* its Next over h's own stack.
HandleChain(h) == h.middleware

\* C17: the client handle a send passes down its chain has the transport of
\* the sending client and a stack of its own that holds the default
\* middleware only, none of those registered with `with`; the terminal
\* handler sends through that transport, and a request sent through the
\* handle traverses none of the registered middleware.
C17_HandleHasDefaultStack ==
    \A i \in 1..Len(sends) :
        LET f == sends[i]
        IN /\ Len(f.handle) <= 1
           /\ f.pc \notin {"lazy", "created"} /\ f.handle # <<>> =>
                 LET h == f.handle[1]
                 IN /\ h.http_client = http_client[f.client]
                    /\ h.middleware = DefaultStack
                    /\ \A j \in 1..Len(instances) : j \notin Elems(HandleChain(h))
                    /\ ByWith(HandleChain(h)) = <<>>
                    /\ \A n \in 1..Len(f.txReq) : f.txReq[n].to = http_client[f.client]
           /\ f.pc \in {"call", "io", "ret", "done"} => f.handle # <<>>

C17_Witness ==
    \E i \in 1..Len(sends) :
        LET f == sends[i]
        IN /\ f.pc = "done"
           /\ Len(ByWith(f.sent)) = 2
           /\ f.handle # <<>>
           /\ f.handle[1].middleware = <<Logger>>
           /\ f.txReq # <<>>
           /\ f.txReq[1].to = http_client[f.client]

\* C18: the middleware modelled advance at most MaxAdvances times and then
\* return, and the transport answers every invocation; then every send that
\* keeps being driven is eventually done, with the response that came up the
\* chain or the failure that did, unless it is dropped.
C18_SendCompletes ==
    \A i \in 1..MaxDeep :
        (Len(sends) >= i /\ sends[i].pc = "created")
            ~> (/\ Len(sends) >= i
                /\ \/ sends[i].pc = "dropped"
                   \/ /\ sends[i].pc = "done"
                      /\ sends[i].frames = <<>>
                      /\ sends[i].result = SendResult(sends[i].val))

C18_Witness ==
    \E i \in 1..Len(sends) :
        LET f == sends[i]
        IN /\ f.pc = "done"
           /\ OneOfKind(f.sent, "retry")
           /\ f.termCount = MaxAdvances
           /\ ~f.result.ok
           /\ f.result.value.by = "transport"

\* A verb step that returned a builder bound to the new client d.
Built(d) == state[d] = "none" /\ state'[d] = "live" /\ owner'[d] = "builder"

\* C19: a verb method called with a well-formed target binds its builder to
\* a new client with the transport of the issuing client and the same
\* middleware instances in the same order in a container of its own (strong
\* count 1), and leaves the issuing client's stack and its strong count as
\* they were; a later `with` on the issuing client leaves the builder's stack
\* alone and succeeds unless a send future of the issuing client holds its
\* stack; and a request sent by the builder traverses the stack as it was
\* when the verb method was called.
C19_VerbBindsDuplicate ==
    /\ [](/\ \A d \in ClientIds :
                (state[d] = "live" /\ owner[d] = "builder") =>
                    /\ middleware[d] = origin[d]
                    /\ http_client[d] = http_client[parent[d]]
          /\ \A i \in 1..Len(sends) :
                owner[sends[i].client] = "builder" =>
                    (sends[i].pc # "lazy" => sends[i].sent = origin[sends[i].client]))
    /\ [][/\ \A d \in ClientIds :
                Built(d) =>
                    LET c == parent'[d]
                    IN /\ last'.op = "verb" /\ last'.wellFormed /\ last'.outcome = "ok"
                       /\ last'.client = c /\ last'.method \in Methods
                       /\ c # d /\ state[c] = "live"
                       /\ http_client'[d] = http_client[c]
                       /\ middleware'[d] = middleware[c]
                       /\ strong'[d] = 1
                       /\ middleware'[c] = middleware[c]
                       /\ strong'[c] = strong[c]
                       /\ strong[c] = 1 => Holders(c, sends') = 1
                       /\ sends' = sends
          /\ (last' # last /\ last'.op = "with") =>
                LET c == last'.client
                IN /\ last'.outcome = "ok" <=> Holders(c, sends) = 1
                   /\ \A d \in ClientIds :
                         (state[d] = "live" /\ owner[d] = "builder" /\ parent[d] = c) =>
                             /\ middleware'[d] = middleware[d]
                             /\ strong'[d] = strong[d]
                             /\ state'[d] = "live"
         ]_vars

C19_Witness ==
    \E d \in ClientIds :
        /\ state[d] = "live" /\ owner[d] = "builder"
        /\ ByWith(origin[d]) # <<>>
        /\ state[parent[d]] = "live"
        /\ Len(middleware[parent[d]]) > Len(origin[d])
        /\ last.op = "with" /\ last.client = parent[d] /\ last.outcome = "ok"
        /\ \E i \in 1..Len(sends) :
              /\ sends[i].client = d
              /\ sends[i].pc = "done"
              /\ sends[i].sent = origin[d]
              /\ Len(sends[i].log) = 2 * Len(origin[d]) + 1

====
